---- MODULE Spec2Model ----
(***************************************************************************)
(* Model of docs/decode_capture.py: decoding of RK keyboard USB capture   *)
(* buffers into firmware codes.                                           *)
(*                                                                         *)
(* Text is modelled as a sequence of one-character strings, a bytes       *)
(* object as a sequence of integers 0..255 and Python's None as <<>>.  A   *)
(* function that can raise returns a record whose field err names the     *)
(* exception ("none" when it returns).                                    *)
(***************************************************************************)
EXTENDS Integers, Sequences, FiniteSets, TLC

VARIABLES pc, err, stdout, argv, capture_file, buffers, data, bindex,
          byte_order, fw_code, kb_file, kb_pos, in_key_section, keys, todo

vars == <<pc, err, stdout, argv, capture_file, buffers, data, bindex,
          byte_order, fw_code, kb_file, kb_pos, in_key_section, keys, todo>>

(***************************************************************************)
(* Bounds of the model.                                                    *)
(***************************************************************************)
MaxLines == 10
MaxNoise == 3
MaxReports == 2
MaxReportLen == 7
MaxIndex == 3
MaxIniLines == 4
MaxKeys == 3
MaxSlot == 2
MaxPayload == 4

(***************************************************************************)
(* Python built-ins used by the script.                                    *)
(***************************************************************************)
Whitespace == {" ", "\t", "\n", "\r"}

RECURSIVE lstrip(_)
lstrip(s) ==
    IF s # <<>> /\ Head(s) \in Whitespace THEN lstrip(Tail(s)) ELSE s

RECURSIVE rstrip(_)
rstrip(s) ==
    IF s # <<>> /\ s[Len(s)] \in Whitespace
    THEN rstrip(SubSeq(s, 1, Len(s) - 1))
    ELSE s

\* str.strip(): leading and trailing whitespace removed
strip(s) == rstrip(lstrip(s))

\* str.replace(' ', ''): every space removed
remove_spaces(s) == SelectSeq(s, LAMBDA c : c # " ")

\* str.startswith(prefix)
startswith(s, prefix) ==
    /\ Len(s) >= Len(prefix)
    /\ SubSeq(s, 1, Len(prefix)) = prefix

\* sequence[n:]  (0-based n, Python slice: empty when n >= len)
slice_from(s, n) == SubSeq(s, n + 1, Len(s))

\* sequence[:n]
slice_to(s, n) == SubSeq(s, 1, IF n < Len(s) THEN n ELSE Len(s))

HexDigits == <<"0", "1", "2", "3", "4", "5", "6", "7",
               "8", "9", "a", "b", "c", "d", "e", "f">>

UpperHexDigits == <<"0", "1", "2", "3", "4", "5", "6", "7",
                    "8", "9", "A", "B", "C", "D", "E", "F">>

is_hex_digit(c) ==
    \E d \in 1..16 : HexDigits[d] = c \/ UpperHexDigits[d] = c

hex_value(c) ==
    (CHOOSE d \in 1..16 : HexDigits[d] = c \/ UpperHexDigits[d] = c) - 1

\* bytes.fromhex(line) on text without whitespace: one byte per pair of hex
\* digits; ValueError on an odd length or a character that is no hex digit
fromhex(line) ==
    IF Len(line) % 2 = 0 /\ \A j \in 1..Len(line) : is_hex_digit(line[j])
    THEN [err |-> "none",
          value |-> [j \in 1..(Len(line) \div 2) |->
                       16 * hex_value(line[2 * j - 1]) + hex_value(line[2 * j])]]
    ELSE [err |-> "ValueError", value |-> <<>>]

\* bytes.hex() of one byte, as the capture text writes it
hex2(b) == <<HexDigits[(b \div 16) + 1], HexDigits[(b % 16) + 1]>>

RECURSIVE hex(_)
hex(bs) == IF bs = <<>> THEN <<>> ELSE hex2(Head(bs)) \o hex(Tail(bs))

(***************************************************************************)
(* parse_buffers                                                           *)
(***************************************************************************)
BufferPrefix == <<"0", "a", "0", "9">>

ExpectedBuffers == 9

\* lines = [l.strip().replace(' ', '') for l in f if l.strip()]
clean_lines(f) ==
    LET kept == SelectSeq(f, LAMBDA l : strip(l) # <<>>)
    IN  [j \in 1..Len(kept) |-> remove_spaces(strip(kept[j]))]

\* buffer_lines = [l for l in lines if l.startswith('0a09')]
buffer_lines(f) ==
    SelectSeq(clean_lines(f), LAMBDA l : startswith(l, BufferPrefix))

\* Variant: every qualifying line decoded, the [:9] cut left out
decoded_lines_uncut(f) == buffer_lines(f)

\* buffer_lines[:9]
decoded_lines(f) == slice_to(buffer_lines(f), ExpectedBuffers)

parse_buffers(f) ==
    LET bl == buffer_lines(f)
        out == IF Len(bl) # ExpectedBuffers
               THEN << <<"Warning: Expected 9 buffers, found", Len(bl)>> >>
               ELSE <<>>
        dl == decoded_lines(f)
        dec == [j \in 1..Len(dl) |-> fromhex(dl[j])]
    IN  IF \E j \in 1..Len(dl) : dec[j].err # "none"
        THEN [err |-> "ValueError", out |-> out, value |-> <<>>]
        ELSE [err |-> "none", out |-> out,
              value |-> [j \in 1..Len(dl) |-> dec[j].value]]

(***************************************************************************)
(* reconstruct_data                                                        *)
(***************************************************************************)
\* Variant: the 5-byte header 0a 09 01 01 f8 taken for the 4-byte one
buffer0_payload_one_header(buf) ==
    IF Len(buf) < 4
    THEN [err |-> "IndexError", out |-> <<>>, value |-> <<>>]
    ELSE IF buf[4] = 1 /\ Len(buf) < 5
    THEN [err |-> "IndexError", out |-> <<>>, value |-> <<>>]
    ELSE IF buf[4] = 1 /\ buf[5] = 248
    THEN [err |-> "none", out |-> <<>>, value |-> slice_from(buf, 4)]
    ELSE IF buf[4] = 248
    THEN [err |-> "none", out |-> <<>>, value |-> slice_from(buf, 4)]
    ELSE [err |-> "none", out |-> <<>>, value |-> slice_from(buf, 3)]

\* The i == 0 branch: which bytes of buffer 0 are payload.  buf[3] and buf[4]
\* are subscripts, so a buffer too short for them raises IndexError; buf[4]
\* is evaluated only when buf[3] == 0x01 ("and" short-circuits).
buffer0_payload(buf) ==
    IF Len(buf) < 4
    THEN [err |-> "IndexError", out |-> <<>>, value |-> <<>>]
    ELSE IF buf[4] = 1 /\ Len(buf) < 5
    THEN [err |-> "IndexError", out |-> <<>>, value |-> <<>>]
    ELSE IF buf[4] = 1 /\ buf[5] = 248
    THEN [err |-> "none", out |-> <<>>, value |-> slice_from(buf, 5)]
    ELSE IF buf[4] = 248
    THEN [err |-> "none", out |-> <<>>, value |-> slice_from(buf, 4)]
    ELSE [err |-> "none",
          out |-> << <<"Unknown buffer 0 format:", hex(slice_to(buf, 5))>> >>,
          value |-> slice_from(buf, 3)]

\* Variant: the position byte of a later buffer kept as payload (buf[2:])
bufferN_payload_keeps_position(buf) ==
    [err |-> "none", out |-> <<>>, value |-> slice_from(buf, 2)]

\* The else branch: buffers 1-8 (every buffer after the first)
bufferN_payload(buf) ==
    [err |-> "none", out |-> <<>>, value |-> slice_from(buf, 3)]

\* One iteration of "for i, buf in enumerate(buffers)"; i is 0-based
buffer_payload(i, buf) ==
    IF i = 0 THEN buffer0_payload(buf) ELSE bufferN_payload(buf)

\* The loop from iteration i on, full_data and the printed lines so far given
RECURSIVE reconstruct_from(_, _, _, _)
reconstruct_from(bufs, i, full_data, out) ==
    IF i >= Len(bufs)
    THEN [err |-> "none", out |-> out, value |-> full_data]
    ELSE LET p == buffer_payload(i, bufs[i + 1])
         IN  IF p.err # "none"
             THEN [err |-> p.err, out |-> out, value |-> <<>>]
             ELSE reconstruct_from(bufs, i + 1, full_data \o p.value,
                                   out \o p.out)

reconstruct_data(bufs) == reconstruct_from(bufs, 0, <<>>, <<>>)

(***************************************************************************)
(* get_firmware_code                                                       *)
(***************************************************************************)
\* Python's data[start:stop]: negative bounds count from the end, both are
\* clamped to 0..len
slice_bound(s, n) ==
    IF n < 0
    THEN (IF Len(s) + n < 0 THEN 0 ELSE Len(s) + n)
    ELSE (IF n > Len(s) THEN Len(s) ELSE n)

py_slice(s, start, stop) ==
    SubSeq(s, slice_bound(s, start) + 1, slice_bound(s, stop))

\* (b[0] << 24) | (b[1] << 16) | (b[2] << 8) | b[3] on bytes: the shifted
\* octets occupy disjoint bits, so the bitwise or is their sum.  The value
\* can reach 2^32 - 1, past the integers of the model checker, so it is kept
\* as its two 16-bit halves <<hi, lo>>, the value being hi * 2^16 + lo.
compose_code(b) ==
    <<b[1] * 256 + b[2], b[3] * 256 + b[4]>>

\* Variant: the range test written offset + 4 >= len(data)
get_firmware_code_strict(d, idx) ==
    LET offset == idx * 4
        b == py_slice(d, offset, offset + 4)
    IN  IF offset + 4 >= Len(d)
        THEN [err |-> "none", value |-> <<>>]
        ELSE IF Len(b) < 4
        THEN [err |-> "IndexError", value |-> <<>>]
        ELSE [err |-> "none", value |-> compose_code(b)]

\* The function takes the blob and the slot only: it has no byte-order
\* parameter.
get_firmware_code(d, idx) ==
    LET offset == idx * 4
        b == py_slice(d, offset, offset + 4)
    IN  IF offset + 4 > Len(d)
        THEN [err |-> "none", value |-> <<>>]
        ELSE IF Len(b) < 4
        THEN [err |-> "IndexError", value |-> <<>>]
        ELSE [err |-> "none", value |-> compose_code(b)]

(***************************************************************************)
(* parse_kb_ini                                                            *)
(***************************************************************************)
\* 0-based place of the first occurrence of c in s, Len(s) when there is none
RECURSIVE find(_, _)
find(s, c) ==
    IF s = <<>> \/ Head(s) = c THEN 0 ELSE 1 + find(Tail(s), c)

\* str.split(sep): the pieces between the separators, empty pieces kept
RECURSIVE split(_, _)
split(s, sep) ==
    LET n == find(s, sep)
    IN  IF n = Len(s) THEN <<s>>
        ELSE <<SubSeq(s, 1, n)>> \o split(slice_from(s, n + 1), sep)

is_digit(c) == \E d \in 1..10 : HexDigits[d] = c

RECURSIVE decimal(_)
decimal(ds) ==
    IF ds = <<>> THEN 0
    ELSE 10 * decimal(SubSeq(ds, 1, Len(ds) - 1)) + hex_value(ds[Len(ds)])

\* int(text): surrounding whitespace ignored, an optional sign, then decimal
\* digits; ValueError for anything else
py_int(text) ==
    LET t == strip(text)
        signed == t # <<>> /\ Head(t) \in {"+", "-"}
        ds == IF signed THEN Tail(t) ELSE t
    IN  IF ds # <<>> /\ \A j \in 1..Len(ds) : is_digit(ds[j])
        THEN [err |-> "none",
              value |-> IF signed /\ Head(t) = "-" THEN 0 - decimal(ds)
                        ELSE decimal(ds)]
        ELSE [err |-> "ValueError", value |-> 0]

KeySection == <<"[", "K", "E", "Y", "]">>

\* Variant: a bracketed line other than [KEY] does not end the KEY section
kb_entry_ignores_section(st, raw) ==
    LET line == strip(raw)
        value == slice_from(line, find(line, "=") + 1)
        parts == split(value, ",")
        n == py_int(parts[8])
    IN  IF line = KeySection
        THEN [in_key_section |-> TRUE, keys |-> st.keys, err |-> "none"]
        ELSE IF ~st.in_key_section \/ ~startswith(line, <<"K">>)
        THEN [in_key_section |-> st.in_key_section, keys |-> st.keys,
              err |-> "none"]
        ELSE IF find(line, "=") = Len(line) \/ Len(parts) < 8
        THEN [in_key_section |-> st.in_key_section, keys |-> st.keys,
              err |-> "none"]
        ELSE IF n.err # "none"
        THEN [in_key_section |-> st.in_key_section, keys |-> st.keys,
              err |-> n.err]
        ELSE [in_key_section |-> st.in_key_section,
              keys |-> Append(st.keys,
                              <<SubSeq(line, 1, find(line, "=")),
                                strip(parts[6]), n.value>>),
              err |-> "none"]

\* One iteration of "for line in f": st holds in_key_section and keys before
\* the line, the result holds them after it, and err the exception int()
\* raised, if any.
kb_entry(st, raw) ==
    LET line == strip(raw)
        in_key == IF startswith(line, <<"[">>) THEN FALSE
                  ELSE st.in_key_section
        key_name == SubSeq(line, 1, find(line, "="))
        value == slice_from(line, find(line, "=") + 1)
        parts == split(value, ",")
        n == py_int(parts[8])
    IN  IF line = KeySection
        THEN [in_key_section |-> TRUE, keys |-> st.keys, err |-> "none"]
        ELSE IF ~in_key \/ ~startswith(line, <<"K">>)
        THEN [in_key_section |-> in_key, keys |-> st.keys, err |-> "none"]
        ELSE IF find(line, "=") = Len(line)
        THEN [in_key_section |-> in_key, keys |-> st.keys, err |-> "none"]
        ELSE IF Len(parts) < 8
        THEN [in_key_section |-> in_key, keys |-> st.keys, err |-> "none"]
        ELSE IF n.err # "none"
        THEN [in_key_section |-> in_key, keys |-> st.keys, err |-> n.err]
        ELSE [in_key_section |-> in_key,
              keys |-> Append(st.keys, <<key_name, strip(parts[6]), n.value>>),
              err |-> "none"]

\* The loop over the file's lines from line pos + 1 on
RECURSIVE kb_lines_from(_, _, _)
kb_lines_from(f, pos, st) ==
    IF pos >= Len(f) \/ st.err # "none" THEN st
    ELSE kb_lines_from(f, pos + 1, kb_entry(st, f[pos + 1]))

parse_kb_ini(f) ==
    LET st == kb_lines_from(f, 0, [in_key_section |-> FALSE, keys |-> <<>>,
                                   err |-> "none"])
    IN  [err |-> st.err, value |-> IF st.err = "none" THEN st.keys ELSE <<>>]

(***************************************************************************)
(* main                                                                    *)
(***************************************************************************)
\* Variant: the keys left in catalog order
sorted_by_bindex_unsorted(ks) == ks

\* x put behind every element whose bIndex is not greater than its own
RECURSIVE insert_by_bindex(_, _)
insert_by_bindex(ks, x) ==
    IF ks = <<>> THEN <<x>>
    ELSE IF x[3] < Head(ks)[3] THEN <<x>> \o ks
    ELSE <<Head(ks)>> \o insert_by_bindex(Tail(ks), x)

\* sorted(keys, key=lambda x: x[2]): ascending bIndex, records of equal
\* bIndex in their catalog order (the sort is stable)
RECURSIVE sorted_by_bindex(_)
sorted_by_bindex(ks) ==
    IF ks = <<>> THEN <<>>
    ELSE insert_by_bindex(sorted_by_bindex(SubSeq(ks, 1, Len(ks) - 1)),
                          ks[Len(ks)])

\* f"{fw_code:08x}" of a code kept as its halves <<hi, lo>>
format_08x(code) ==
    hex2(code[1] \div 256) \o hex2(code[1] % 256)
      \o hex2(code[2] \div 256) \o hex2(code[2] % 256)

SampleIndices == <<0, 1, 2, 3, 4, 5, 10, 20, 50, 53>>

(***************************************************************************)
(* Inputs of the reassembly: the report buffers parse_buffers can return.  *)
(* Every buffer starts with the bytes 0a 09 of its capture line.           *)
(***************************************************************************)
\* A byte that names its buffer and place, so that a moved, lost or repeated
\* byte shows in the blob
Tag(i, j) == 16 * (i + 1) + j

SmallReport(i, len, b3, b4) ==
    LET n == IF len < 5 THEN 5 ELSE len
        full == [j \in 1..n |->
                   IF j = 1 THEN 10
                   ELSE IF j = 2 THEN 9
                   ELSE IF j = 3 THEN i + 1
                   ELSE IF i = 0 /\ j = 4 THEN b3
                   ELSE IF i = 0 /\ j = 5 THEN b4
                   ELSE Tag(i, j)]
    IN  slice_to(full, len)

SmallCaptures ==
    { [i \in 1..Len(lens) |-> SmallReport(i - 1, lens[i], b3, b4)] :
        lens \in UNION {[1..m -> 2..MaxReportLen] : m \in 0..MaxReports},
        b3 \in {1, 248, 7}, b4 \in {1, 248} }

FillerSeeds == {0, 85, 200}

Filler(seed, i, n) == [j \in 1..n |-> (seed + 31 * i + j) % 256]

\* Buffer 0 = 0a 09 01 f8 + 60 filler bytes, buffers 1-8 = 0a 09 + position
\* byte + 61 filler bytes
ScenarioCapture(seed) ==
    [i \in 1..9 |->
       IF i = 1 THEN <<10, 9, 1, 248>> \o Filler(seed, 0, 60)
       ELSE <<10, 9, i>> \o Filler(seed, i - 1, 61)]

\* Nine 65-byte reports; buffer 0 starts 0a 09 01 01 f8 or 0a 09 01 f8
FullCapture(seed, long_header) ==
    [i \in 1..9 |->
       IF i = 1
       THEN (IF long_header
             THEN <<10, 9, 1, 1, 248>> \o Filler(seed, 0, 60)
             ELSE <<10, 9, 1, 248>> \o Filler(seed, 0, 61))
       ELSE <<10, 9, i>> \o Filler(seed, i - 1, 62)]

Captures ==
    SmallCaptures
      \cup {ScenarioCapture(seed) : seed \in FillerSeeds}
      \cup {FullCapture(seed, h) : seed \in FillerSeeds, h \in BOOLEAN}

QueryIndices == (-1..MaxIndex) \cup {200}

ByteOrders == {"big", "little"}

(***************************************************************************)
(* Spec: reassembly of the capture's buffers, then one extraction.         *)
(***************************************************************************)
\* The uncaught exception that ended the run, with the function that raised
\* it: <<>> while there is none
NoError == <<>>

Traceback(e, f) == IF e = "none" THEN NoError ELSE <<e, f>>

Init ==
    /\ pc = "reconstruct_data"
    /\ buffers \in Captures
    /\ err = NoError /\ stdout = <<>> /\ argv = <<>> /\ capture_file = <<>>
    /\ data = <<>> /\ bindex = 0 /\ byte_order = "big"
    /\ fw_code = <<>> /\ kb_file = <<>> /\ kb_pos = 0
    /\ in_key_section = FALSE /\ keys = <<>> /\ todo = <<>>

Reconstruct ==
    /\ pc = "reconstruct_data"
    /\ LET r == reconstruct_data(buffers)
       IN  /\ err' = Traceback(r.err, "reconstruct_data")
           /\ stdout' = stdout \o r.out
           /\ data' = r.value
           /\ pc' = IF r.err = "none" THEN "get_firmware_code" ELSE "raised"
    /\ UNCHANGED <<argv, capture_file, buffers, bindex, byte_order, fw_code,
                   kb_file, kb_pos, in_key_section, keys, todo>>

\* A caller asks for slot idx and wants the bytes composed in the given order;
\* the order cannot be passed on, get_firmware_code(data, bindex) has no
\* parameter for it.
Extract ==
    /\ pc = "get_firmware_code"
    /\ \E idx \in QueryIndices, order \in ByteOrders :
         LET r == get_firmware_code(data, idx)
         IN  /\ bindex' = idx
             /\ byte_order' = order
             /\ fw_code' = r.value
             /\ err' = Traceback(r.err, "get_firmware_code")
             /\ pc' = IF r.err = "none" THEN "done" ELSE "raised"
    /\ UNCHANGED <<stdout, argv, capture_file, buffers, data, kb_file, kb_pos,
                   in_key_section, keys, todo>>

Next == Reconstruct \/ Extract

Spec == Init /\ [][Next]_vars

(***************************************************************************)
(* Properties of the reassembly and the extraction (Spec).                 *)
(***************************************************************************)
\* reconstruct_data has returned its blob into data
Reassembled == pc \in {"get_firmware_code", "done"}

\* get_firmware_code has returned into fw_code
Extracted == pc = "done"

\* reconstruct_data has raised instead of returning
ReconstructRaised == pc = "raised" /\ err[2] = "reconstruct_data"

\* Header length of the report at position i (0-based), as section 4.1 of
\* the specification states it
HeaderLen(i, buf) ==
    IF i = 0 /\ Len(buf) >= 5 /\ buf[4] = 1 /\ buf[5] = 248 THEN 5
    ELSE IF i = 0 /\ Len(buf) >= 4 /\ buf[4] = 248 THEN 4
    ELSE 3

PayloadLen(i, buf) ==
    IF Len(buf) > HeaderLen(i, buf) THEN Len(buf) - HeaderLen(i, buf) ELSE 0

\* Number of payload bytes of the reports at positions 0 .. n-1
RECURSIVE PayloadBefore(_, _)
PayloadBefore(bufs, n) ==
    IF n = 0 THEN 0
    ELSE PayloadBefore(bufs, n - 1) + PayloadLen(n - 1, bufs[n])

\* C1: whenever reconstruct_data returns, the blob is the concatenation, in
\* position order, of the reports' payloads: its length is the sum of the
\* payload lengths, and the k-th payload byte of the report at position i
\* stands at place (payload bytes of the earlier reports) + k, so no byte is
\* reordered, dropped or duplicated.  The payload of report 0 is bytes[5:]
\* if byte[3] = 0x01 and byte[4] = 0xf8, bytes[4:] else if byte[3] = 0xf8,
\* bytes[3:] otherwise; of every later report bytes[3:].
C1_BlobIsConcatenation ==
    Reassembled =>
      /\ Len(data) = PayloadBefore(buffers, Len(buffers))
      /\ \A n \in 1..Len(buffers) :
           \A k \in 1..PayloadLen(n - 1, buffers[n]) :
             data[PayloadBefore(buffers, n - 1) + k]
               = buffers[n][HeaderLen(n - 1, buffers[n]) + k]

C1_Witness ==
    /\ Reassembled
    /\ Len(buffers) = 2
    /\ HeaderLen(0, buffers[1]) = 5
    /\ \A n \in 1..2 : PayloadLen(n - 1, buffers[n]) >= 2

\* C2: for a non-negative slot index, get_firmware_code returns None exactly
\* when (index + 1) * 4 > length(blob), and a defined 32-bit value (two
\* 16-bit halves) otherwise, without raising.
C2_NotAvailableIffOutOfRange ==
    /\ (Extracted /\ bindex >= 0) =>
         /\ (fw_code = <<>>) <=> ((bindex + 1) * 4 > Len(data))
         /\ fw_code # <<>> =>
              /\ Len(fw_code) = 2
              /\ \A h \in 1..2 : fw_code[h] \in 0..65535
    /\ (pc = "raised" /\ bindex >= 0) => err[2] # "get_firmware_code"

\* the last whole slot of a blob with a partial final group
C2_Witness ==
    /\ Extracted
    /\ Len(data) % 4 # 0
    /\ Len(data) >= 4
    /\ bindex = (Len(data) \div 4) - 1
    /\ fw_code # <<>>

\* The four bytes of the slot just read
SlotBytes == SubSeq(data, bindex * 4 + 1, bindex * 4 + 4)

BigEndian(b) == <<b[1] * 256 + b[2], b[3] * 256 + b[4]>>

LittleEndian(b) == <<b[4] * 256 + b[3], b[2] * 256 + b[1]>>

\* C3: for an in-range slot the 4 bytes are composed according to the byte
\* order the caller asked for: big-endian makes byte[0] the most significant
\* octet, little-endian makes byte[0] the least significant octet.
C3_ByteOrderHonoured ==
    (Extracted /\ bindex >= 0 /\ fw_code # <<>>) =>
      fw_code = (IF byte_order = "big" THEN BigEndian(SlotBytes)
                 ELSE LittleEndian(SlotBytes))

\* C4: reconstruct_data never raises, whatever the number and the lengths of
\* the reports.
C4_NoFatalPath == ~ReconstructRaised

IsScenario == \E seed \in FillerSeeds : buffers = ScenarioCapture(seed)

\* The end-to-end scenario with the blob length left open
ScenarioHolds(length) ==
    IsScenario =>
      /\ ~ReconstructRaised
      /\ Reassembled => Len(data) = length
      /\ (Extracted /\ bindex = 0) =>
           fw_code = BigEndian(SubSeq(buffers[1], 5, 8))
      /\ (Extracted /\ bindex = 200) => fw_code = <<>>

\* C9 as stated: the blob of the end-to-end scenario has 60 + 8*62 = 556
\* bytes, slot 0 is the first 4 filler bytes most significant first, slot 200
\* is not available.
C9_ScenarioAsStated == ScenarioHolds(556)

\* C9 amended: the blob of the end-to-end scenario has 60 + 8*61 = 548 bytes
\* (each of the buffers 1-8 is 0a 09, a position byte and 61 filler bytes, and
\* its payload is the 61 filler bytes); slot 0 is the first 4 filler bytes
\* most significant first, slot 200 is not available.
C9_ScenarioAmended == ScenarioHolds(548)

C9_Witness ==
    /\ IsScenario
    /\ Extracted
    /\ bindex = 0
    /\ fw_code # <<>>
    /\ Len(data) = 548

IsFullCapture ==
    \E seed \in FillerSeeds, h \in BOOLEAN : buffers = FullCapture(seed, h)

\* C10: nine 65-byte reports whose buffer 0 has one of the two known headers
\* reassemble to the full 585-byte blob.
C10_FullBlobLength ==
    IsFullCapture => /\ ~ReconstructRaised
                     /\ Reassembled => Len(data) = 585

(***************************************************************************)
(* SpecParse: parse_buffers on a capture file.                             *)
(***************************************************************************)
\* The k-th line of a capture file is a report line that carries k as its
\* third byte ("\t0a 09 0k\n"), a hex line that does not start with 0a09, or
\* a blank line.
ReportLine(k) ==
    <<"\t", "0", "a", " ", "0", "9", " ">> \o hex2(k) \o <<"\n">>

OtherLine == <<"f", "8", " ", "0", "a", "0", "9", "\n">>

BlankLine == <<" ", "\n">>

CaptureLine(kind, k) ==
    IF kind = "report" THEN ReportLine(k)
    ELSE IF kind = "other" THEN OtherLine
    ELSE BlankLine

\* Files of at most MaxLines lines, at most MaxNoise of them no report lines
CaptureFiles ==
    { [k \in 1..Len(kinds) |-> CaptureLine(kinds[k], k)] :
        kinds \in { ks \in UNION {[1..n -> {"report", "other", "blank"}] :
                                    n \in 0..MaxLines} :
                      Cardinality({k \in 1..Len(ks) : ks[k] # "report"})
                        <= MaxNoise } }

InitParse ==
    /\ pc = "parse_buffers"
    /\ capture_file \in CaptureFiles
    /\ err = NoError /\ stdout = <<>> /\ argv = <<>> /\ buffers = <<>>
    /\ data = <<>> /\ bindex = 0 /\ byte_order = "big"
    /\ fw_code = <<>> /\ kb_file = <<>> /\ kb_pos = 0
    /\ in_key_section = FALSE /\ keys = <<>> /\ todo = <<>>

ParseBuffers ==
    /\ pc = "parse_buffers"
    /\ LET r == parse_buffers(capture_file)
       IN  /\ err' = Traceback(r.err, "parse_buffers")
           /\ stdout' = stdout \o r.out
           /\ buffers' = r.value
           /\ pc' = IF r.err = "none" THEN "parsed" ELSE "raised"
    /\ UNCHANGED <<argv, capture_file, data, bindex, byte_order, fw_code,
                   kb_file, kb_pos, in_key_section, keys, todo>>

NextParse == ParseBuffers

SpecParse == InitParse /\ [][NextParse]_vars

\* The places in the capture file of its qualifying lines
QualifyingLines ==
    {k \in 1..Len(capture_file) : capture_file[k] = ReportLine(k)}

CountWarnings ==
    Len(SelectSeq(stdout,
                  LAMBDA o : o[1] = "Warning: Expected 9 buffers, found"))

\* C5: with n qualifying lines in the file, parse_buffers returns exactly
\* min(n, 9) reports, the j-th of them decoded from the j-th qualifying line
\* (the bytes 0a 09 and the line's own place), lines without the prefix
\* contribute nothing, the count diagnostic is printed if and only if n # 9,
\* and the run goes on.
C5_FirstNineQualifyingLines ==
    /\ pc # "raised"
    /\ pc = "parsed" =>
         LET n == Cardinality(QualifyingLines)
         IN  /\ Len(buffers) = (IF n < 9 THEN n ELSE 9)
             /\ \A j \in 1..Len(buffers) :
                  \E k \in QualifyingLines :
                    /\ Cardinality({q \in QualifyingLines : q < k}) = j - 1
                    /\ buffers[j] = <<10, 9, k>>
             /\ CountWarnings = (IF n # 9 THEN 1 ELSE 0)

\* ten qualifying lines: one more than is decoded
C5_Witness ==
    /\ pc = "parsed"
    /\ Cardinality(QualifyingLines) = 10
    /\ Len(buffers) = 9
    /\ CountWarnings = 1

(***************************************************************************)
(* SpecIni: parse_kb_ini on a catalog file, line by line.                  *)
(***************************************************************************)
KeyHeaderLine == <<"[", "K", "E", "Y", "]", "\n">>

OtherHeaderLine == <<"[", "O", "T", "H", "E", "R", "]", "\n">>

\* K1=0,0,10,10,0,0x41,0,5
K1Line ==
    <<"K", "1", "=", "0", ",", "0", ",", "1", "0", ",", "1", "0", ",", "0",
      ",", "0", "x", "4", "1", ",", "0", ",", "5", "\n">>

\* K2=1,1,2,2,0, 0x42 ,0, 17 ,9   (a ninth field, and spaces round two fields)
K2Line ==
    <<"K", "2", "=", "1", ",", "1", ",", "2", ",", "2", ",", "0", ",", " ",
      "0", "x", "4", "2", " ", ",", "0", ",", " ", "1", "7", " ", ",", "9",
      "\n">>

\* K3 (no '=')
NoEqualsLine == <<"K", "3", "\n">>

\* K4=1,2,3 (fewer than 8 fields)
FewFieldsLine == <<"K", "4", "=", "1", ",", "2", ",", "3", "\n">>

\* K5=0,0,0,0,0,0x43,0,zz (field 7 is no integer)
NotIntegerLine ==
    <<"K", "5", "=", "0", ",", "0", ",", "0", ",", "0", ",", "0", ",",
      "0", "x", "4", "3", ",", "0", ",", "z", "z", "\n">>

CatalogLines ==
    {KeyHeaderLine, OtherHeaderLine, K1Line, K2Line, NoEqualsLine,
     FewFieldsLine, NotIntegerLine}

CatalogFiles == UNION {[1..n -> CatalogLines] : n \in 0..MaxIniLines}

InitIni ==
    /\ pc = "parse_kb_ini"
    /\ kb_file \in CatalogFiles
    /\ kb_pos = 0 /\ in_key_section = FALSE /\ keys = <<>>
    /\ err = NoError /\ stdout = <<>> /\ argv = <<>> /\ capture_file = <<>>
    /\ buffers = <<>> /\ data = <<>> /\ bindex = 0 /\ byte_order = "big"
    /\ fw_code = <<>> /\ todo = <<>>

\* one iteration of the loop over the file's lines
KbLine ==
    /\ pc = "parse_kb_ini"
    /\ kb_pos < Len(kb_file)
    /\ LET st == kb_entry([in_key_section |-> in_key_section, keys |-> keys,
                           err |-> "none"], kb_file[kb_pos + 1])
       IN  /\ in_key_section' = st.in_key_section
           /\ keys' = st.keys
           /\ err' = Traceback(st.err, "parse_kb_ini")
           /\ kb_pos' = IF st.err = "none" THEN kb_pos + 1 ELSE kb_pos
           /\ pc' = IF st.err = "none" THEN "parse_kb_ini" ELSE "raised"
    /\ UNCHANGED <<stdout, argv, capture_file, buffers, data, bindex,
                   byte_order, fw_code, kb_file, todo>>

\* return keys
KbReturn ==
    /\ pc = "parse_kb_ini"
    /\ kb_pos = Len(kb_file)
    /\ pc' = "catalog_parsed"
    /\ UNCHANGED <<err, stdout, argv, capture_file, buffers, data, bindex,
                   byte_order, fw_code, kb_file, kb_pos, in_key_section,
                   keys, todo>>

NextIni == KbLine \/ KbReturn

SpecIni == InitIni /\ [][NextIni]_vars

\* Line j of the catalog is a bracketed section line
IsSectionLine(j) == Head(kb_file[j]) = "["

\* Line j lies inside the KEY section: a [KEY] line comes before it, and no
\* bracketed line stands between that line and line j, nor is line j one.
InsideKeySection(j) ==
    \E h \in 1..(j - 1) :
      /\ kb_file[h] = KeyHeaderLine
      /\ \A m \in (h + 1)..j : ~IsSectionLine(m)

\* The record a well-formed entry line stands for
EntryRecord(line) ==
    IF line = K1Line THEN << <<"K", "1">>, <<"0", "x", "4", "1">>, 5 >>
    ELSE << <<"K", "2">>, <<"0", "x", "4", "2">>, 17 >>

\* The records of the well-formed entry lines inside the KEY section among
\* the first n lines, in file order
RECURSIVE RecordsInKeySection(_)
RecordsInKeySection(n) ==
    IF n = 0 THEN <<>>
    ELSE RecordsInKeySection(n - 1)
           \o (IF kb_file[n] \in {K1Line, K2Line} /\ InsideKeySection(n)
               THEN <<EntryRecord(kb_file[n])>>
               ELSE <<>>)

\* C6: at every point of the parse, the records extracted so far are those of
\* the entry lines read while inside the KEY section: an entry before the
\* first [KEY] line or after a later bracketed line yields no record; and the
\* catalog [KEY], K1=0,0,10,10,0,0x41,0,5, [OTHER], K2=... yields exactly the
\* record {K1, "0x41", 5}.
C6_RecordsOnlyInsideKeySection ==
    /\ pc \in {"parse_kb_ini", "catalog_parsed"} =>
         keys = RecordsInKeySection(kb_pos)
    /\ (/\ pc = "catalog_parsed"
        /\ kb_file = <<KeyHeaderLine, K1Line, OtherHeaderLine, K2Line>>) =>
         keys = << << <<"K", "1">>, <<"0", "x", "4", "1">>, 5 >> >>

C6_Witness ==
    /\ pc = "catalog_parsed"
    /\ kb_file = <<KeyHeaderLine, K1Line, OtherHeaderLine, K2Line>>
    /\ Len(keys) = 1

\* C7: a malformed or incomplete line inside the KEY section (no '=', fewer
\* than 8 fields, or a field 7 that is no integer) is skipped: the parse
\* raises nothing and returns the records of the other lines.
C7_MalformedLinesSkipped ==
    /\ pc # "raised"
    /\ pc = "catalog_parsed" => keys = RecordsInKeySection(Len(kb_file))

(***************************************************************************)
(* SpecMain: a run of main on the command line, the capture file and the   *)
(* catalog file.                                                           *)
(***************************************************************************)
\* 0a 09 01 f8 and n payload bytes, as one line of hex text
FirstCaptureLine(n) ==
    hex(<<10, 9, 1, 248>> \o [j \in 1..n |-> Tag(0, j + 4)]) \o <<"\n">>

\* 0a 09 02 and 9 payload bytes
SecondCaptureLine ==
    hex(<<10, 9, 2>> \o [j \in 1..9 |-> Tag(1, j + 3)]) \o <<"\n">>

\* a capture line cut off behind its prefix
ShortCaptureLine == <<"0", "a", "0", "9", "\n">>

MainCaptures ==
    {<<FirstCaptureLine(n)>> : n \in 0..MaxPayload}
      \cup {<<FirstCaptureLine(n), SecondCaptureLine>> : n \in 0..MaxPayload}
      \cup {<<ShortCaptureLine>>}

\* K<k>=0,0,10,10,0,0x4<k>,0,<slot>
KeyLine(k, slot) ==
    <<"K", HexDigits[k + 1], "=", "0", ",", "0", ",", "1", "0", ",",
      "1", "0", ",", "0", ",", "0", "x", "4", HexDigits[k + 1], ",", "0", ",">>
      \o (IF slot < 0 THEN <<"-", HexDigits[(0 - slot) + 1]>>
          ELSE <<HexDigits[slot + 1]>>)
      \o <<"\n">>

\* [KEY] and at most MaxKeys entries, each with a bIndex in -1 .. MaxSlot
MainCatalogs ==
    { <<KeyHeaderLine>> \o [k \in 1..Len(slots) |-> KeyLine(k, slots[k])] :
        slots \in UNION {[1..n -> -1..MaxSlot] : n \in 0..MaxKeys} }

InitMain ==
    /\ pc = "main"
    /\ \/ /\ argv = <<"decode_capture.py">>
          /\ capture_file = <<>>
          /\ kb_file = <<>>
       \/ /\ argv = <<"decode_capture.py", "capture.txt">>
          /\ capture_file \in MainCaptures
          /\ kb_file = <<>>
       \/ /\ argv = <<"decode_capture.py", "capture.txt", "KB.ini">>
          /\ capture_file \in MainCaptures
          /\ kb_file \in MainCatalogs
    /\ err = NoError /\ stdout = <<>> /\ buffers = <<>> /\ data = <<>>
    /\ bindex = 0 /\ byte_order = "big" /\ fw_code = <<>> /\ kb_pos = 0
    /\ in_key_section = FALSE /\ keys = <<>> /\ todo = <<>>

\* if len(sys.argv) < 2: usage, sys.exit(1)
MainUsage ==
    /\ pc = "main"
    /\ Len(argv) < 2
    /\ stdout' = Append(stdout, <<"Usage">>)
    /\ pc' = "exit(1)"
    /\ UNCHANGED <<err, argv, capture_file, buffers, data, bindex, byte_order,
                   fw_code, kb_file, kb_pos, in_key_section, keys, todo>>

\* buffers = parse_buffers(capture_file); print
MainParse ==
    /\ pc = "main"
    /\ Len(argv) >= 2
    /\ LET r == parse_buffers(capture_file)
       IN  /\ err' = Traceback(r.err, "parse_buffers")
           /\ buffers' = r.value
           /\ stdout' = IF r.err = "none"
                        THEN stdout \o r.out
                               \o << <<"Parsed buffers", Len(r.value)>> >>
                        ELSE stdout \o r.out
           /\ pc' = IF r.err = "none" THEN "main_reconstruct" ELSE "raised"
    /\ UNCHANGED <<argv, capture_file, data, bindex, byte_order, fw_code,
                   kb_file, kb_pos, in_key_section, keys, todo>>

\* data = reconstruct_data(buffers); print; the if on kb_ini_file
MainReconstruct ==
    /\ pc = "main_reconstruct"
    /\ LET r == reconstruct_data(buffers)
       IN  /\ err' = Traceback(r.err, "reconstruct_data")
           /\ data' = r.value
           /\ stdout' = IF r.err = "none"
                        THEN stdout \o r.out
                               \o << <<"Reconstructed bytes", Len(r.value)>> >>
                        ELSE stdout \o r.out
           /\ pc' = IF r.err # "none" THEN "raised"
                    ELSE IF Len(argv) > 2 THEN "main_catalog"
                    ELSE "main_sample"
    /\ UNCHANGED <<argv, capture_file, buffers, bindex, byte_order, fw_code,
                   kb_file, kb_pos, in_key_section, keys, todo>>

\* keys = parse_kb_ini(kb_ini_file); the table's heading; sorted(keys, ...)
MainCatalog ==
    /\ pc = "main_catalog"
    /\ LET r == parse_kb_ini(kb_file)
       IN  /\ err' = Traceback(r.err, "parse_kb_ini")
           /\ keys' = r.value
           /\ todo' = sorted_by_bindex(r.value)
           /\ stdout' = IF r.err = "none"
                        THEN stdout \o << <<"Heading">>, <<"Rule">> >>
                        ELSE stdout
           /\ pc' = IF r.err = "none" THEN "main_rows" ELSE "raised"
    /\ UNCHANGED <<argv, capture_file, buffers, data, bindex, byte_order,
                   fw_code, kb_file, kb_pos, in_key_section>>

\* one iteration of the loop over the sorted keys
MainRow ==
    /\ pc = "main_rows"
    /\ todo # <<>>
    /\ LET key == Head(todo)
           r == get_firmware_code(data, key[3])
       IN  /\ bindex' = key[3]
           /\ fw_code' = r.value
           /\ err' = Traceback(r.err, "get_firmware_code")
           /\ stdout' = IF r.err = "none" /\ r.value # <<>>
                        THEN Append(stdout,
                                    <<"row", key[1], key[2], key[3],
                                      key[3] * 4, format_08x(r.value)>>)
                        ELSE stdout
           /\ pc' = IF r.err = "none" THEN "main_rows" ELSE "raised"
    /\ todo' = Tail(todo)
    /\ UNCHANGED <<argv, capture_file, buffers, data, byte_order, kb_file,
                   kb_pos, in_key_section, keys>>

\* the else branch: the sample slots
MainSampleStart ==
    /\ pc = "main_sample"
    /\ stdout' = Append(stdout, <<"Sample firmware codes">>)
    /\ todo' = SampleIndices
    /\ pc' = "main_sample_rows"
    /\ UNCHANGED <<err, argv, capture_file, buffers, data, bindex, byte_order,
                   fw_code, kb_file, kb_pos, in_key_section, keys>>

\* one iteration of the loop over the sample slots
MainSampleRow ==
    /\ pc = "main_sample_rows"
    /\ todo # <<>>
    /\ LET idx == Head(todo)
           r == get_firmware_code(data, idx)
       IN  /\ bindex' = idx
           /\ fw_code' = r.value
           /\ err' = Traceback(r.err, "get_firmware_code")
           /\ stdout' = IF r.err = "none" /\ r.value # <<>>
                        THEN Append(stdout,
                                    <<"sample", idx, idx * 4,
                                      format_08x(r.value)>>)
                        ELSE stdout
           /\ pc' = IF r.err = "none" THEN "main_sample_rows" ELSE "raised"
    /\ todo' = Tail(todo)
    /\ UNCHANGED <<argv, capture_file, buffers, data, byte_order, kb_file,
                   kb_pos, in_key_section, keys>>

\* main returns
MainEnd ==
    /\ pc \in {"main_rows", "main_sample_rows"}
    /\ todo = <<>>
    /\ pc' = "exit(0)"
    /\ UNCHANGED <<err, stdout, argv, capture_file, buffers, data, bindex,
                   byte_order, fw_code, kb_file, kb_pos, in_key_section, keys,
                   todo>>

NextMain ==
    \/ MainUsage
    \/ MainParse
    \/ MainReconstruct
    \/ MainCatalog
    \/ MainRow
    \/ MainSampleStart
    \/ MainSampleRow
    \/ MainEnd

SpecMain == InitMain /\ [][NextMain]_vars

\* The rows of the table printed so far
TableRows == SelectSeq(stdout, LAMBDA o : o[1] = "row")

\* The catalog's records all have a SlotIndex, a non-negative integer
SlotsAreIndices == \A k \in 1..Len(keys) : keys[k][3] >= 0

SlotAvailable(slot) == slot * 4 + 4 <= Len(data)

\* C8: with a catalog whose records have non-negative slot indices, the
\* finished table has exactly one row for each record whose slot is available
\* (slot_index * 4 + 4 <= length(blob)) and none for any other record, its
\* rows are in ascending slot_index order, each row's byte_offset is
\* slot_index * 4, and no record makes the table loop raise.
C8_TableRows ==
    (Len(argv) > 2 /\ SlotsAreIndices) =>
      /\ pc = "raised" => err[2] # "get_firmware_code"
      /\ pc = "exit(0)" =>
           /\ \A k \in 1..Len(keys) :
                Cardinality({i \in 1..Len(TableRows) :
                               /\ TableRows[i][2] = keys[k][1]
                               /\ TableRows[i][3] = keys[k][2]
                               /\ TableRows[i][4] = keys[k][3]})
                  = (IF SlotAvailable(keys[k][3]) THEN 1 ELSE 0)
           /\ Len(TableRows)
                = Cardinality({k \in 1..Len(keys) : SlotAvailable(keys[k][3])})
      /\ \A i \in 1..Len(TableRows) :
           /\ TableRows[i][5] = TableRows[i][4] * 4
           /\ \A j \in 1..(i - 1) : TableRows[j][4] <= TableRows[i][4]

\* a catalog given out of slot order, one record of it out of range
C8_Witness ==
    /\ pc = "exit(0)"
    /\ Len(argv) > 2
    /\ Len(keys) >= 2
    /\ SlotsAreIndices
    /\ keys[1][3] > keys[2][3]
    /\ SlotAvailable(keys[2][3])
    /\ \E k \in 1..Len(keys) : ~SlotAvailable(keys[k][3])
    /\ Len(TableRows) >= 1

====
